---- MODULE Spec2Model ----
(***************************************************************************)
(* Model of the multi-tenant session lifecycle manager of WhatsBerry:      *)
(* SessionManager (src/src/core/SessionManager.js), the engine start       *)
(* routines initializeClient / initializeClientFallback                    *)
(* (src/unnamed/part_000), the server wrappers (src/unnamed/part_001) and  *)
(* the start / logout routes (src/src/routes/auth.routes.js); and of the    *)
(* audio conversion cache AudioConverter with the media route that calls   *)
(* it (src/src/routes/media.routes.js).                                    *)
(*                                                                         *)
(* JavaScript runs one task at a time and a task gives up control only at  *)
(* an await.  Every action below is therefore one run-to-completion slice  *)
(* of a task: from its call (or from the await it resumes at) up to its    *)
(* next await or its return.                                               *)
(***************************************************************************)
EXTENDS Integers, FiniteSets, Sequences, Bags, TLC

\* ------------------------------------------------------------------ bounds
MaxSessions == 3   \* session ids minted in one behaviour
MaxEngines  == 2   \* engine objects (new Client) created in one behaviour
MaxTasks    == 2   \* suspended async tasks in flight at one time
NumUsers    == 1   \* distinct user keys
NumKeys     == 2   \* media ids (cache keys) requested in one behaviour
MaxJobs     == 2   \* convertAudioToMp3 calls in flight at one time
MaxCalls    == 3   \* convertAudioToMp3 calls that get past the engine check in one behaviour

Users      == 1..NumUsers
SessionIds == 1..MaxSessions
EngineIds  == 1..MaxEngines
Keys       == 1..NumKeys
JobIds     == 1..MaxJobs

\* Media types of the messages: "<type>/<subtype>" followed by "; <params>"
\* when params is not empty.
Mime(type, subtype, params) == [type |-> type, subtype |-> subtype, params |-> params]
Mimetypes ==
    << Mime("audio", "ogg", "codecs=opus"),
       Mime("audio", "mp4", ""),
       Mime("audio", "mpeg", ""),
       Mime("image", "jpeg", "") >>
MimetypeSet == {Mimetypes[i] : i \in 1..Len(Mimetypes)}
Formats == {"original", "mp3", "wav"}

\* Idle classes of a record: where Date.now() - lastActivity lies with respect
\* to the three thresholds the code compares it with.
\*   "fresh"  : below 5 minutes                  (SessionManager.js:106)
\*   "idle5"  : 5 minutes .. 15 minutes          (UNFINISHED_SESSION_TIMEOUT)
\*   "idle15" : above 15 minutes .. 24 hours     (SESSION_TIMEOUT)
\*   "idle24" : above 24 hours
IdleClasses == <<"fresh", "idle5", "idle15", "idle24">>
IdleRank(c) == CHOOSE i \in 1..Len(IdleClasses) : IdleClasses[i] = c

VARIABLES
    sessions,      \* this.sessions: the set of registered session ids (Map keys)
    rec,           \* the session objects, by identity (= the id they were minted with)
    userSessions,  \* this.userSessions: user -> session id, 0 when there is no entry
    nextSid,       \* ids minted so far + 1 (uuidv4 never repeats)
    engines,       \* the engine objects created so far (new Client), in creation order
    tasks,         \* the suspended async tasks: a bag of task records
    lastOp         \* history: the slice that ran last, its result and what it published

VARIABLES
    ffmpegAvailable,       \* this.ffmpegAvailable, set once by initializeFFmpeg
    mediaMimetype,         \* media.mimetype of the message behind each media id
    audioConversionCache,  \* this.audioConversionCache: media id -> age class of its entry
    inputFile,             \* input_<id>.<ext> exists in the cache directory
    outputFile,            \* output_<id>.mp3: "absent", "partial" or "complete"
    jobs,                  \* the convertAudioToMp3 calls in flight, by slot
    sweep,                 \* the cleanupAudioCache call in flight
    numCalls               \* history: the convertAudioToMp3 calls admitted so far

sessionVars == <<sessions, rec, userSessions, nextSid, engines, tasks>>
audioVars == <<ffmpegAvailable, mediaMimetype, audioConversionCache, inputFile, outputFile,
               jobs, sweep, numCalls>>
vars == <<sessions, rec, userSessions, nextSid, engines, tasks, lastOp, ffmpegAvailable,
          mediaMimetype, audioConversionCache, inputFile, outputFile, jobs, sweep, numCalls>>

\* A free slot of jobs, and the state in which no sweep runs.
NoJob == [key |-> 0, pc |-> "idle", linked |-> FALSE, settled |-> FALSE, got |-> "none"]
NoSweep == [pc |-> "idle", key |-> 0, expired |-> {}]

\* new AudioConverter(dir) with an empty cache directory: the Map is empty and
\* nothing runs; avail is the outcome of initializeFFmpeg, mimes the media of
\* the messages.
AudioConstructed(avail, mimes) ==
    /\ ffmpegAvailable = avail
    /\ mediaMimetype = mimes
    /\ audioConversionCache = [k \in Keys |-> "none"]
    /\ inputFile = [k \in Keys |-> FALSE]
    /\ outputFile = [k \in Keys |-> "absent"]
    /\ jobs = [j \in JobIds |-> NoJob]
    /\ sweep = NoSweep
    /\ numCalls = 0

NoClient == 0

\* The object literal of getOrCreateSession; idle stands for lastActivity.
NewRecord(u) ==
    [ client          |-> NoClient,
      isReady         |-> FALSE,
      isAuthenticated |-> FALSE,
      qrCode          |-> FALSE,
      userId          |-> u,
      idle            |-> "fresh",
      reconnecting    |-> FALSE ]

\* Placeholder for an id that has not been minted yet.
NoRecord == [NewRecord(0) EXCEPT !.idle = "none"]

Minted == 1..(nextSid - 1)

Task(kind, sid, pc, eng, ic, fb) ==
    [kind |-> kind, sid |-> sid, pc |-> pc, eng |-> eng, ic |-> ic, fb |-> fb]

Spawn(bag, t) == bag (+) SetToBag({t})
Finish(bag, t) == bag (-) SetToBag({t})
InFlight == BagToSet(tasks)
NumTasks(bag) == BagCardinality(bag)

\* lastOp: op names the slice, sid its session id, res its result (the reply of
\* a route, the outcome of a task), emitted the notifications it published to
\* the session's room, old the id a getOrCreateSession call superseded (or 0).
OpSup(op, sid, res, emitted, old) ==
    [op |-> op, sid |-> sid, res |-> res, emitted |-> emitted, old |-> old]

Op(op, sid, res, emitted) == OpSup(op, sid, res, emitted, 0)

Init ==
    /\ sessions = {}
    /\ rec = [s \in SessionIds |-> NoRecord]
    /\ userSessions = [u \in Users |-> 0]
    /\ nextSid = 1
    /\ engines = <<>>
    /\ tasks = EmptyBag
    /\ lastOp = Op("init", 0, "ok", {})
    /\ AudioConstructed(TRUE, [k \in Keys |-> Mimetypes[1]])

\* isUserSessionCurrent: the id is still the one registered for its user.
IsUserSessionCurrent(s) ==
    /\ s \in sessions
    /\ userSessions[rec[s].userId] = s

\* ------------------------------------------------------------- engines
EngineLive(e) == e \in 1..Len(engines) /\ engines[e].live

\* client.destroy() resolved: the engine object is gone.
KillEngine(es, e) ==
    IF e \in 1..Len(es) THEN [es EXCEPT ![e].live = FALSE] ELSE es

\* new Client(...): the next engine object, owned by session object s.
\* clock is the class of the time that has passed since the routine that
\* created the engine took `startTime = Date.now()` (part_000:20), against the
\* 120000 ms the disconnected handler compares it with:
\*   "below"      less than 120000 ms since startTime;
\*   "startOver"  120000 ms or more since startTime, and less than that since
\*                the session last became ready, if it is ready;
\*   "readyOver"  120000 ms or more since the session last became ready.
CreateEngine(es, s, fallback) ==
    Append(es, [sid |-> s, fallback |-> fallback, live |-> TRUE, clock |-> "below"])

\* ------------------------------------------------------ destroySession
\* this.sessions.delete(sessionId); this.userSessions.delete(session.userId):
\* two statements with no await between them.  The second deletes the user's
\* entry whatever id it holds.
\* Mutant: only the session-id index is updated.
DeleteSessionOnly(R, s) == [R EXCEPT !.sessions = @ \ {s}]

DeleteBoth(R, s) ==
    [R EXCEPT !.sessions = @ \ {s}, !.userSessions[rec[s].userId] = 0]

Registry == [sessions |-> sessions, userSessions |-> userSessions, tasks |-> tasks]

SetRegistry(R) ==
    /\ sessions' = R.sessions
    /\ userSessions' = R.userSessions
    /\ tasks' = R.tasks

\* Mutant: getOrCreateSession / logout without the teardown of the record.
DestroyCallSkipped(R, s) == R

\* Mutant: an await before the map entries are deleted, engine or not.
DestroyCallAwaitFirst(R, s) ==
    IF s \notin R.sessions
    THEN R
    ELSE [R EXCEPT !.tasks =
             Spawn(@, Task("destroy", s, "teardown", rec[s].client, FALSE, FALSE))]

\* Mutant: no `if (session)` guard, the record of the first call is reused.
DestroyCallUnguarded(R, s) ==
    IF rec[s].client # NoClient
    THEN [R EXCEPT !.tasks =
             Spawn(@, Task("destroy", s, "teardown", rec[s].client, FALSE, FALSE))]
    ELSE [DeleteBoth(R, s) EXCEPT !.tasks =
             Spawn(@, Task("destroy", s, "rm", NoClient, FALSE, FALSE))]

\* The synchronous prefix of destroySession(s), up to its first await, applied
\* to a registry R = [sessions, userSessions, tasks].  With an engine attached
\* the call suspends at client.destroy() before it touches the maps; without
\* one it deletes both map entries and suspends at fs.rm.
DestroyCall(R, s) ==
    IF s \notin R.sessions
    THEN R
    ELSE IF rec[s].client # NoClient
         THEN [R EXCEPT !.tasks =
                  Spawn(@, Task("destroy", s, "teardown", rec[s].client, FALSE, FALSE))]
         ELSE [DeleteBoth(R, s) EXCEPT !.tasks =
                  Spawn(@, Task("destroy", s, "rm", NoClient, FALSE, FALSE))]

\* POST /session/:sessionId/logout, for any id that was ever handed out.
Logout(s) ==
    /\ s \in Minted
    /\ LET R == DestroyCall(Registry, s) IN
        /\ NumTasks(R.tasks) <= MaxTasks
        /\ SetRegistry(R)
        /\ lastOp' = Op("destroyCall", s, IF s \in sessions THEN "started" ELSE "noop", {})
    /\ UNCHANGED <<rec, nextSid, engines>>
    /\ UNCHANGED audioVars

\* destroySession resumes after `await session.client.destroy()`.  ok: both
\* map entries are deleted and the task suspends at fs.rm.  ~ok: the rejection
\* lands in the outer catch, which logs it; nothing after line 271 runs.
TeardownDone(t, ok) ==
    /\ t \in InFlight /\ t.kind = "destroy" /\ t.pc = "teardown"
    /\ IF ok
       THEN /\ engines' = KillEngine(engines, t.eng)
            /\ SetRegistry([DeleteBoth(Registry, t.sid) EXCEPT !.tasks =
                               Spawn(Finish(tasks, t), [t EXCEPT !.pc = "rm"])])
            /\ lastOp' = Op("teardownDone", t.sid, "ok", {})
       ELSE /\ tasks' = Finish(tasks, t)
            /\ lastOp' = Op("destroyReturn", t.sid, "teardown_failed", {})
            /\ UNCHANGED <<engines, sessions, userSessions>>
    /\ UNCHANGED <<rec, nextSid>>
    /\ UNCHANGED audioVars

\* destroySession resumes after `await fs.rm(...)`: whether the deletion
\* succeeded or was caught and logged, session_destroyed is emitted.
RmDone(t) ==
    /\ t \in InFlight /\ t.kind = "destroy" /\ t.pc = "rm"
    /\ tasks' = Finish(tasks, t)
    /\ lastOp' = Op("destroyReturn", t.sid, "ok", {"session_destroyed"})
    /\ UNCHANGED <<sessions, rec, userSessions, nextSid, engines>>
    /\ UNCHANGED audioVars

\* --------------------------------------------------- getOrCreateSession
GetOrCreateSession(u) ==
    /\ nextSid <= MaxSessions
    /\ LET old  == userSessions[u]
           sup  == old # 0 /\ old \in sessions
           R1   == IF sup THEN DestroyCall(Registry, old) ELSE Registry
           R2   == IF sup THEN [R1 EXCEPT !.userSessions[u] = 0] ELSE R1
           new  == nextSid
       IN  /\ NumTasks(R2.tasks) <= MaxTasks
           /\ sessions' = R2.sessions \cup {new}
           /\ userSessions' = [R2.userSessions EXCEPT ![u] = new]
           /\ tasks' = R2.tasks
           /\ rec' = [rec EXCEPT ![new] = NewRecord(u)]
           /\ nextSid' = nextSid + 1
           /\ lastOp' = OpSup("getOrCreate", new, IF sup THEN "superseded" ELSE "created",
                              {}, IF sup THEN old ELSE 0)
    /\ UNCHANGED engines
    /\ UNCHANGED audioVars

\* ------------------------------------------ engine start routines
\* What a start or reconnect task does when the primary start routine has
\* thrown.  The start route always calls the fallback wrapper; reconnectSession
\* calls it only when it was given one.  The wrapper throws synchronously when
\* the id is no longer registered; otherwise the task suspends at fs.mkdir.
FallbackEntry(t) ==
    IF t.kind = "reconnect" /\ ~t.fb THEN [pc |-> "done", res |-> "failed"]
    ELSE IF t.sid \notin sessions THEN [pc |-> "done", res |-> "failed"]
    ELSE [pc |-> "fb_pre", res |-> "pending"]

\* The call of the primary wrapper initializeClient(sessionId): it throws when
\* the id is not registered, else it suspends at fs.mkdir / fs.readdir.
PrimaryEntry(t) ==
    IF t.sid \in sessions THEN [pc |-> "ic_pre", res |-> "pending"]
    ELSE FallbackEntry(t)

\* Mutant: the exit after both start routines failed leaves the flag set.
ExitReconnectKeepOnFailure(r, res) ==
    IF res = "failed" THEN r ELSE [r EXCEPT !.reconnecting = FALSE]

\* reconnectSession sets reconnecting = false on each of its exits (lines 219,
\* 222, 233, 246, 256); res is the exit taken.
ExitReconnect(r, res) == [r EXCEPT !.reconnecting = FALSE]

\* The end of a slice of start / reconnect task t: r is the value of its
\* session object, nx the place the task goes to, base the other tasks.
Continue(t, base, r, nx, emitted) ==
    LET done == nx.pc = "done"
        rc   == t.kind = "reconnect"
    IN  /\ tasks' = IF done THEN base ELSE Spawn(base, [t EXCEPT !.pc = nx.pc, !.eng = NoClient])
        /\ rec' = [rec EXCEPT ![t.sid] = IF done /\ rc THEN ExitReconnect(r, nx.res) ELSE r]
        /\ lastOp' = Op(IF done THEN t.kind \o "Return" ELSE t.kind \o "Step", t.sid, nx.res,
                        emitted \cup (IF done /\ rc /\ nx.res = "failed"
                                      THEN {"reconnection_failed"} ELSE {}))

\* Mutant: the check against the user's current session id is missing.
StartVerdictNoCurrentCheck(s) ==
    IF s \notin sessions THEN "not_found"
    ELSE IF rec[s].client # NoClient THEN "already_started"
    ELSE "accepted"

\* Mutant: the `if (session.client)` check is missing.
StartVerdictNoClientCheck(s) ==
    IF s \notin sessions THEN "not_found"
    ELSE IF userSessions[rec[s].userId] # s THEN "superseded"
    ELSE "accepted"

\* The checks of startSessionHandler (lines 70-94): 404, 410, 200 'Session
\* already started', or go on to start the engine.
StartVerdict(s) ==
    IF s \notin sessions THEN "not_found"
    ELSE IF userSessions[rec[s].userId] # s THEN "superseded"
    ELSE IF rec[s].client # NoClient THEN "already_started"
    ELSE "accepted"

\* startSessionHandler up to its first await (the 500 ms delay).
StartRequest(s) ==
    /\ s \in SessionIds
    /\ LET res == StartVerdict(s)
       IN  /\ lastOp' = Op("startRequest", s, res, {})
           /\ IF res = "accepted"
              THEN /\ NumTasks(tasks) < MaxTasks
                   /\ tasks' = Spawn(tasks, Task("start", s, "delay", NoClient, TRUE, TRUE))
              ELSE UNCHANGED tasks
    /\ UNCHANGED <<sessions, rec, userSessions, nextSid, engines>>
    /\ UNCHANGED audioVars

\* The delay is over: sessionManager.initializeClient(sessionId) is called.
StartDelayDone(t) ==
    /\ t \in InFlight /\ t.kind = "start" /\ t.pc = "delay"
    /\ Continue(t, Finish(tasks, t), rec[t.sid], PrimaryEntry(t), {})
    /\ UNCHANGED <<sessions, userSessions, nextSid, engines>>
    /\ UNCHANGED audioVars

\* initializeClient resumes after mkdir / readdir.  ok: the engine is created,
\* its handlers are bound to the session object, session.client is set and
\* client.initialize() is raced against the 45 s timer.  ~ok: mkdir rejected,
\* which leaves initializeClient before its try block.
PrimaryAttach(t, ok) ==
    /\ t \in InFlight /\ t.kind \in {"start", "reconnect"} /\ t.pc = "ic_pre"
    /\ IF ok
       THEN /\ Len(engines) < MaxEngines
            /\ engines' = CreateEngine(engines, t.sid, FALSE)
            /\ Continue(t, Finish(tasks, t), [rec[t.sid] EXCEPT !.client = Len(engines) + 1],
                        [pc |-> "ic_init", res |-> "pending"], {})
       ELSE /\ Continue(t, Finish(tasks, t), rec[t.sid], FallbackEntry(t), {})
            /\ UNCHANGED engines
    /\ UNCHANGED <<sessions, userSessions, nextSid>>
    /\ UNCHANGED audioVars

\* The reset of initializeClient's catch block (lines 248-252).
PrimaryFailureReset(r) == [r EXCEPT !.client = NoClient, !.qrCode = FALSE]

\* The race of client.initialize() against the timer is decided.
PrimaryInitDone(t, ok) ==
    /\ t \in InFlight /\ t.kind \in {"start", "reconnect"} /\ t.pc = "ic_init"
    /\ IF ok
       THEN Continue(t, Finish(tasks, t), rec[t.sid], [pc |-> "done", res |-> "primary_ok"], {})
       ELSE IF rec[t.sid].client # NoClient
            THEN /\ tasks' = Spawn(Finish(tasks, t),
                                   [t EXCEPT !.pc = "ic_cleanup", !.eng = rec[t.sid].client])
                 /\ lastOp' = Op(t.kind \o "Step", t.sid, "pending", {})
                 /\ UNCHANGED rec
            ELSE Continue(t, Finish(tasks, t), PrimaryFailureReset(rec[t.sid]),
                          FallbackEntry(t), {"auth_failure"})
    /\ UNCHANGED <<sessions, userSessions, nextSid, engines>>
    /\ UNCHANGED audioVars

\* initializeClient resumes after `await session.client.destroy()` in its catch
\* block; a rejection of destroy() is swallowed.
PrimaryCleanupDone(t, ok) ==
    /\ t \in InFlight /\ t.kind \in {"start", "reconnect"} /\ t.pc = "ic_cleanup"
    /\ engines' = IF ok THEN KillEngine(engines, t.eng) ELSE engines
    /\ Continue(t, Finish(tasks, t), PrimaryFailureReset(rec[t.sid]),
                FallbackEntry(t), {"auth_failure"})
    /\ UNCHANGED <<sessions, userSessions, nextSid>>
    /\ UNCHANGED audioVars

\* initializeClientFallback resumes after mkdir.  ok: the fallback engine is
\* created and attached.  ~ok: mkdir rejected and the routine rethrows.
FallbackAttach(t, ok) ==
    /\ t \in InFlight /\ t.kind \in {"start", "reconnect"} /\ t.pc = "fb_pre"
    /\ IF ok
       THEN /\ Len(engines) < MaxEngines
            /\ engines' = CreateEngine(engines, t.sid, TRUE)
            /\ Continue(t, Finish(tasks, t), [rec[t.sid] EXCEPT !.client = Len(engines) + 1],
                        [pc |-> "fb_init", res |-> "pending"], {})
       ELSE /\ Continue(t, Finish(tasks, t), rec[t.sid], [pc |-> "done", res |-> "failed"], {})
            /\ UNCHANGED engines
    /\ UNCHANGED <<sessions, userSessions, nextSid>>
    /\ UNCHANGED audioVars

\* The race of fallbackClient.initialize() against the 20 s timer is decided;
\* on failure the routine throws and leaves session.client as it is.
FallbackInitDone(t, ok) ==
    /\ t \in InFlight /\ t.kind \in {"start", "reconnect"} /\ t.pc = "fb_init"
    /\ Continue(t, Finish(tasks, t), rec[t.sid],
                [pc |-> "done", res |-> IF ok THEN "fallback_ok" ELSE "failed"], {})
    /\ UNCHANGED <<sessions, userSessions, nextSid, engines>>
    /\ UNCHANGED audioVars

\* ---------------------------------------------------- reconnectSession
\* Mutant: the reset leaves isAuthenticated as it is.
ReconnectResetKeepAuth(r) ==
    [r EXCEPT !.client = NoClient, !.isReady = FALSE, !.qrCode = FALSE]

\* The reset of lines 202-205.
ReconnectReset(r) ==
    [r EXCEPT !.client = NoClient, !.isReady = FALSE, !.isAuthenticated = FALSE, !.qrCode = FALSE]

\* What follows the reset: the 'reconnecting' notification, then the start
\* routine when one was supplied.
AfterReset(t) ==
    IF t.ic THEN PrimaryEntry(t) ELSE [pc |-> "done", res |-> "no_routine"]

\* Mutant: no `if (session.reconnecting)` check.
ReconnectGuardNoFlag(s) == s \in sessions

\* The guard of reconnectSession (lines 176-186): TRUE when the call goes on.
ReconnectGuard(s) == s \in sessions /\ ~rec[s].reconnecting

\* reconnectSession(s, initializeClient, initializeClientFallback) up to its
\* first await; ic / fb tell whether the start routines were supplied, base is
\* the bag of the other tasks.
ReconnectSession(s, ic, fb, base) ==
    IF ~ReconnectGuard(s)
    THEN /\ tasks' = base
         /\ lastOp' = Op("reconnectCall", s, IF s \in sessions THEN "skipped" ELSE "not_found", {})
         /\ UNCHANGED rec
    ELSE IF rec[s].client # NoClient
         THEN /\ tasks' = Spawn(base, Task("reconnect", s, "rc_destroy", rec[s].client, ic, fb))
              /\ rec' = [rec EXCEPT ![s].reconnecting = TRUE]
              /\ lastOp' = Op("reconnectCall", s, "started", {})
         ELSE LET t == Task("reconnect", s, "rc_destroy", NoClient, ic, fb)
              IN  Continue(t, base, ReconnectReset([rec[s] EXCEPT !.reconnecting = TRUE]),
                           AfterReset(t), {"reconnecting"})

\* reconnectSession resumes after `await session.client.destroy()`; a rejection
\* is caught and logged.
ReconnectTeardownDone(t, ok) ==
    /\ t \in InFlight /\ t.kind = "reconnect" /\ t.pc = "rc_destroy"
    /\ engines' = IF ok THEN KillEngine(engines, t.eng) ELSE engines
    /\ Continue(t, Finish(tasks, t), ReconnectReset(rec[t.sid]), AfterReset(t), {"reconnecting"})
    /\ UNCHANGED <<sessions, userSessions, nextSid>>
    /\ UNCHANGED audioVars

\* The routes of media.routes.js that call sessionManager.reconnectSession(id)
\* with no start routine.
ApiReconnect(s) ==
    /\ s \in SessionIds
    /\ NumTasks(tasks) < MaxTasks
    /\ ReconnectSession(s, FALSE, FALSE, tasks)
    /\ UNCHANGED <<sessions, userSessions, nextSid, engines>>
    /\ UNCHANGED audioVars

\* A caller of the public method that supplies the server's start routines.
ReconnectWithRoutines(s, fb) ==
    /\ s \in SessionIds
    /\ NumTasks(tasks) < MaxTasks
    /\ ReconnectSession(s, TRUE, fb, tasks)
    /\ UNCHANGED <<sessions, userSessions, nextSid, engines>>
    /\ UNCHANGED audioVars

\* -------------------------------------------------- engine events
\* The synchronous handlers initializeClient binds to the engine it creates
\* (part_000:93-161); session is the object the routine was called with.
PrimaryEvent(r, ev) ==
    CASE ev = "ready" ->
           IF r.isReady THEN [r |-> r, emitted |-> {}]
           ELSE [r |-> [r EXCEPT !.isReady = TRUE, !.qrCode = FALSE], emitted |-> {"ready"}]
      [] ev = "authenticated" ->
           IF r.isAuthenticated THEN [r |-> r, emitted |-> {}]
           ELSE [r |-> [r EXCEPT !.isAuthenticated = TRUE, !.idle = "fresh"],
                 emitted |-> {"authenticated"}]
      [] ev = "auth_failure" ->
           [r |-> [r EXCEPT !.isAuthenticated = FALSE], emitted |-> {"auth_failure"}]
      [] ev = "disconnected" ->
           [r |-> [r EXCEPT !.isReady = FALSE], emitted |-> {"disconnected"}]
      [] ev = "error" ->
           [r |-> r, emitted |-> {"auth_failure"}]

\* The synchronous handlers initializeClientFallback binds (part_000:316-324);
\* it binds none for authenticated and disconnected, whose events find no
\* listener.
FallbackEvent(r, ev) ==
    CASE ev = "ready" -> [r |-> [r EXCEPT !.isReady = TRUE], emitted |-> {"ready"}]
      [] ev = "auth_failure" -> [r |-> r, emitted |-> {"auth_failure"}]
      [] OTHER -> [r |-> r, emitted |-> {}]

\* Session s has just become ready: no engine of s is 120000 ms past that.
ReadyReached(es, s) ==
    [e \in DOMAIN es |->
        IF es[e].sid = s /\ es[e].clock = "readyOver"
        THEN [es[e] EXCEPT !.clock = "startOver"] ELSE es[e]]

\* The reasons an engine gives for a disconnected event.
DisconnectReasons == {"LOGOUT", "NAVIGATION"}

\* The disconnected handler of engine e, called with reason, logs the
\* '[WA Anti-Bot]' line: timeSinceReady is Date.now() - startTime when
\* session.isReady held on entry and 'N/A' otherwise, and the line is logged
\* when reason === 'LOGOUT' and timeSinceReady < 120000 (part_000:143, 152).
\* The fallback routine binds no disconnected handler.
AntiBotSignal(e, reason) ==
    /\ ~engines[e].fallback
    /\ reason = "LOGOUT"
    /\ rec[engines[e].sid].isReady
    /\ engines[e].clock = "below"

\* Events with a synchronous handler in at least one of the two routines; the
\* fallback routine binds no 'error' listener and the event is modelled for
\* primary engines only.
EventNames == {"ready", "authenticated", "auth_failure", "disconnected", "error"}

\* The suspended handler of a qr event of engine e: it awaits
\* qrcode.toDataURL(qr).  pc is "toDataURL" until the handler of a later event
\* of the same engine has changed the record, "overtaken" from then on.
QrTask(e) == Task("qr", engines[e].sid, "toDataURL", e, FALSE, FALSE)

\* The pending qr handlers of engine e are marked as overtaken.
Overtake(bag, e) ==
    LET q == QrTask(e)
        n == CopiesIn(q, bag)
    IN  IF n = 0 THEN bag
        ELSE (bag (-) [x \in {q} |-> n]) (+) [x \in {[q EXCEPT !.pc = "overtaken"]} |-> n]

\* A live engine emits an event; its handler runs on the session object the
\* engine was created for, whether or not that object is still registered.
EngineEvent(e, ev) ==
    /\ EngineLive(e)
    /\ ev = "error" => ~engines[e].fallback
    /\ LET s   == engines[e].sid
           out == IF engines[e].fallback THEN FallbackEvent(rec[s], ev)
                                        ELSE PrimaryEvent(rec[s], ev)
       IN  /\ rec' = [rec EXCEPT ![s] = out.r]
           /\ tasks' = IF out.r # rec[s] THEN Overtake(tasks, e) ELSE tasks
           /\ lastOp' = Op("event", s, ev, out.emitted)
           /\ engines' = IF out.r.isReady /\ ~rec[s].isReady
                         THEN ReadyReached(engines, s) ELSE engines
    /\ UNCHANGED <<sessions, userSessions, nextSid>>
    /\ UNCHANGED audioVars

\* Time passes for live engine e: Date.now() - startTime reaches 120000 ms,
\* and later so does the time since its session became ready.
ClockTick(e) ==
    /\ EngineLive(e)
    /\ \/ engines[e].clock = "below"
       \/ engines[e].clock = "startOver" /\ rec[engines[e].sid].isReady
    /\ engines' = [engines EXCEPT ![e].clock =
                      IF @ = "below" THEN "startOver" ELSE "readyOver"]
    /\ lastOp' = Op("clockTick", engines[e].sid, "ok", {})
    /\ UNCHANGED <<sessions, rec, userSessions, nextSid, tasks>>
    /\ UNCHANGED audioVars

\* A live engine emits qr: both routines bind an async handler that first
\* awaits the conversion of the payload (part_000:65-70, 299-302).
QrEvent(e) ==
    /\ EngineLive(e)
    /\ NumTasks(tasks) < MaxTasks
    /\ tasks' = Spawn(tasks, QrTask(e))
    /\ lastOp' = Op("event", engines[e].sid, "qr", {})
    /\ UNCHANGED <<sessions, rec, userSessions, nextSid, engines>>
    /\ UNCHANGED audioVars

\* The qr handler resumes.  ok: the payload is stored in session.qrCode and
\* published.  ~ok: toDataURL rejected; the primary handler publishes
\* auth_failure, the fallback handler only logs.
QrDone(t, ok) ==
    /\ t \in InFlight /\ t.kind = "qr"
    /\ tasks' = Finish(tasks, t)
    /\ IF ok
       THEN /\ rec' = [rec EXCEPT ![t.sid].qrCode = TRUE]
            /\ lastOp' = Op("qrDone", t.sid,
                            IF t.pc = "overtaken" THEN "stored_late" ELSE "stored", {"qr"})
       ELSE /\ UNCHANGED rec
            /\ lastOp' = Op("qrDone", t.sid, "failed",
                            IF engines[t.eng].fallback THEN {} ELSE {"auth_failure"})
    /\ UNCHANGED <<sessions, userSessions, nextSid, engines>>
    /\ UNCHANGED audioVars

\* ------------------------------------------------- checkSessionHealth
\* Time passes for session s: Date.now() - lastActivity reaches the next
\* threshold the code compares it with.
Tick(s) ==
    /\ s \in sessions
    /\ IdleRank(rec[s].idle) < Len(IdleClasses)
    /\ rec' = [rec EXCEPT ![s].idle = IdleClasses[IdleRank(@) + 1]]
    /\ lastOp' = Op("tick", s, "ok", {})
    /\ UNCHANGED <<sessions, userSessions, nextSid, engines, tasks>>
    /\ UNCHANGED audioVars

\* A socket joins the room of session s: session.lastActivity = Date.now().
Touch(s) ==
    /\ s \in sessions
    /\ rec[s].idle # "fresh"
    /\ rec' = [rec EXCEPT ![s].idle = "fresh"]
    /\ lastOp' = Op("touch", s, "ok", {})
    /\ UNCHANGED <<sessions, userSessions, nextSid, engines, tasks>>
    /\ UNCHANGED audioVars

\* Mutant: the supervisor does not skip replaced sessions.
HealthCheckAppliesNoCurrentCheck(r, s) == r[s].idle # "fresh"

\* The two `continue` checks of the loop body (lines 97-108), on records r:
\* TRUE when the loop goes on to examine record s.
HealthCheckApplies(r, s) ==
    /\ IsUserSessionCurrent(s)
    /\ r[s].idle # "fresh"

\* The loop of checkSessionHealth runs from the entry after cursor c, on
\* records r, up to its next await or its end: it passes over the records the
\* checks skip; `await this.reconnectSession(id)` on a record without an engine
\* has no await inside and the loop goes on after it.  The result tells where
\* the loop stops (sid, pc), the records it leaves and the sessions whose
\* reset published 'reconnecting'.
\* Mutant: a record that has an engine but is not ready is probed.
NeedsReconnectOnlyNoClient(r, s) == r[s].client = NoClient

\* `if (!session.client || !session.isReady)` (line 111): TRUE when the loop
\* calls reconnectSession at once, FALSE when it probes the engine.
NeedsReconnect(r, s) == r[s].client = NoClient \/ ~r[s].isReady

RECURSIVE CycleRun(_, _, _)
RECURSIVE CycleReconnect(_, _, _)
CycleRun(c, r, notified) ==
    LET cand == {s \in sessions : s > c /\ HealthCheckApplies(r, s)}
    IN  IF cand = {}
        THEN [rec |-> r, sid |-> 0, pc |-> "end", notified |-> notified]
        ELSE LET s == CHOOSE x \in cand : \A y \in cand : x <= y
             IN  IF NeedsReconnect(r, s)
                 THEN CycleReconnect(s, r, notified)
                 ELSE [rec |-> r, sid |-> s, pc |-> "probe", notified |-> notified]

\* this.reconnectSession(s) called by the loop, with no start routine.
CycleReconnect(s, r, notified) ==
    IF s \notin sessions \/ r[s].reconnecting
    THEN CycleRun(s, r, notified)
    ELSE IF r[s].client # NoClient
         THEN [rec |-> [r EXCEPT ![s].reconnecting = TRUE], sid |-> s, pc |-> "rc_destroy",
               notified |-> notified]
         ELSE CycleRun(s, [r EXCEPT ![s] = ExitReconnect(ReconnectReset(r[s]), "no_routine")],
                       notified \cup {s})

\* The end of a slice of the supervisor cycle: res is the result of the loop
\* run, base the other tasks.
CycleStop(op, res, base) ==
    /\ rec' = res.rec
    /\ tasks' = IF res.pc = "end" THEN base
                ELSE Spawn(base, Task("health", res.sid, res.pc, res.rec[res.sid].client,
                                      FALSE, FALSE))
    /\ lastOp' = Op(op, res.sid, res.pc, IF res.notified = {} THEN {} ELSE {"reconnecting"})

\* The health-check interval fires; the previous cycle has ended.
HealthCheck ==
    /\ ~\E t \in InFlight : t.kind = "health"
    /\ NumTasks(tasks) < MaxTasks
    /\ CycleStop("healthCheck", CycleRun(0, rec, {}), tasks)
    /\ UNCHANGED <<sessions, userSessions, nextSid, engines>>
    /\ UNCHANGED audioVars

\* The race of session.client.getState() against the 10 s timer is decided.
\* ok: the state is logged and the loop goes on.  ~ok: reconnectSession is
\* called for the probed record.
HealthProbeDone(t, ok) ==
    /\ t \in InFlight /\ t.kind = "health" /\ t.pc = "probe"
    /\ ok => EngineLive(t.eng)
    /\ CycleStop("healthProbeDone",
                 IF ok THEN CycleRun(t.sid, rec, {}) ELSE CycleReconnect(t.sid, rec, {}),
                 Finish(tasks, t))
    /\ UNCHANGED <<sessions, userSessions, nextSid, engines>>
    /\ UNCHANGED audioVars

\* The reconnectSession body the loop awaits resumes after
\* `await session.client.destroy()`: reset, 'reconnecting', flag cleared, and
\* the loop goes on.
HealthTeardownDone(t, ok) ==
    /\ t \in InFlight /\ t.kind = "health" /\ t.pc = "rc_destroy"
    /\ engines' = IF ok THEN KillEngine(engines, t.eng) ELSE engines
    /\ CycleStop("healthTeardownDone",
                 CycleRun(t.sid,
                          [rec EXCEPT ![t.sid] = ExitReconnect(ReconnectReset(rec[t.sid]),
                                                               "no_routine")],
                          {t.sid}),
                 Finish(tasks, t))
    /\ UNCHANGED <<sessions, userSessions, nextSid>>
    /\ UNCHANGED audioVars

\* ------------------------------------------------------ timeout sweeps
\* Mutant: the unfinished-session sweep does not look at isAuthenticated.
UnfinishedIgnoringAuth(s) ==
    /\ ~rec[s].isReady
    /\ rec[s].idle \in {"idle15", "idle24"}

\* The test of cleanupUnfinishedSessions (line 78): not ready, not
\* authenticated and idle for more than UNFINISHED_SESSION_TIMEOUT.
Unfinished(s) ==
    /\ ~rec[s].isReady
    /\ ~rec[s].isAuthenticated
    /\ rec[s].idle \in {"idle15", "idle24"}

\* The test of cleanupInactiveSessions (line 64): idle for more than
\* SESSION_TIMEOUT.
Inactive(s) == rec[s].idle = "idle24"

\* The loop of a sweep over the registered ids in S, in Map order: each
\* this.destroySession(id) is called without await, so its synchronous prefix
\* runs inside the loop and the rest is left suspended.
RECURSIVE SweepDestroy(_, _)
SweepDestroy(R, S) ==
    IF S = {} THEN R
    ELSE LET s == CHOOSE x \in S : \A y \in S : x <= y
         IN  SweepDestroy(DestroyCall(R, s), S \ {s})

\* The session cleanup interval fires: cleanupInactiveSessions().
CleanupInactiveSessions ==
    /\ LET S == {s \in sessions : Inactive(s)}
           R == SweepDestroy(Registry, S)
       IN  /\ NumTasks(R.tasks) <= MaxTasks
           /\ SetRegistry(R)
           /\ lastOp' = Op("cleanupInactiveSessions", 0, IF S = {} THEN "none" ELSE "swept", {})
    /\ UNCHANGED <<rec, nextSid, engines>>
    /\ UNCHANGED audioVars

\* The unfinished cleanup interval fires: cleanupUnfinishedSessions().
CleanupUnfinishedSessions ==
    /\ LET S == {s \in sessions : Unfinished(s)}
           R == SweepDestroy(Registry, S)
       IN  /\ NumTasks(R.tasks) <= MaxTasks
           /\ SetRegistry(R)
           /\ lastOp' = Op("cleanupUnfinishedSessions", 0, IF S = {} THEN "none" ELSE "swept", {})
    /\ UNCHANGED <<rec, nextSid, engines>>
    /\ UNCHANGED audioVars

\* ------------------------------------------------------ isSessionHealthy
\* Mutant: the check of the reconnecting flag is left out.
HealthyPrecheckNoFlag(s) ==
    s \in sessions /\ rec[s].client # NoClient /\ rec[s].isReady

\* `if (!session || !session.client || !session.isReady ||
\* session.reconnecting) return false` (line 149), negated: TRUE when the call
\* goes on to probe the engine.
HealthyPrecheck(s) ==
    s \in sessions /\ rec[s].client # NoClient /\ rec[s].isReady /\ ~rec[s].reconnecting

\* isSessionHealthy(s) up to its return or its await of the probe.
IsSessionHealthy(s) ==
    /\ s \in SessionIds
    /\ IF HealthyPrecheck(s)
       THEN /\ NumTasks(tasks) < MaxTasks
            /\ tasks' = Spawn(tasks, Task("healthy", s, "probe", rec[s].client, FALSE, FALSE))
            /\ lastOp' = Op("isSessionHealthy", s, "probing", {})
       ELSE /\ tasks' = tasks
            /\ lastOp' = Op("isSessionHealthy", s, "false", {})
    /\ UNCHANGED <<sessions, rec, userSessions, nextSid, engines>>
    /\ UNCHANGED audioVars

\* The race of session.client.getState() against the 5 s timer is decided:
\* the call returns true when the engine answered, false otherwise.
HealthyProbeDone(t, ok) ==
    /\ t \in InFlight /\ t.kind = "healthy" /\ t.pc = "probe"
    /\ ok => EngineLive(t.eng)
    /\ tasks' = Finish(tasks, t)
    /\ lastOp' = Op("isSessionHealthyDone", t.sid, IF ok THEN "true" ELSE "false", {})
    /\ UNCHANGED <<sessions, rec, userSessions, nextSid, engines>>
    /\ UNCHANGED audioVars

\* ------------------------------------------------------ AudioConverter
\* mimetype.toLowerCase().split(';')[0].trim(): the parameters are dropped
\* (the media types of the model are already in lower case).
BaseMimetype(m) == Mime(m.type, m.subtype, "")

\* needsAudioConversion(mimetype).
AudioFormatsNeedingConversion ==
    {Mime("audio", x, "") : x \in {"ogg", "opus", "webm", "aac", "m4a", "wav", "flac"}}
NeedsAudioConversion(m) == BaseMimetype(m) \in AudioFormatsNeedingConversion

\* mimetype.startsWith('audio/').
StartsWithAudio(m) == m.type = "audio"

\* Mutant: mp3 is offered for audio whether or not the engine was found.
GetSupportedFormatsNoEngineCheck(m) ==
    {"original"} \cup (IF StartsWithAudio(m) THEN {"mp3"} ELSE {})

\* getSupportedFormats(mimetype) and isValidFormat(format, mimetype).
GetSupportedFormats(m) ==
    {"original"} \cup (IF StartsWithAudio(m) /\ ffmpegAvailable THEN {"mp3"} ELSE {})
IsValidFormat(format, m) == format \in GetSupportedFormats(m)

\* The condition under which the media routes call convertAudioToMp3.
RouteConverts(format, m) ==
    format = "mp3" /\ StartsWithAudio(m) /\ m # Mime("audio", "mpeg", "")

\* Mutant: an entry whose age equals the TTL is still served.
CacheHitAtTTL(k) == audioConversionCache[k] \in {"young", "atTTL"}

\* `cacheEntry && (Date.now() - cacheEntry.timestamp < this.audioConversionTTL)`.
\* The age classes of an entry: "young" below the TTL, "atTTL" equal to it,
\* "old" above it.
CacheHit(k) == audioConversionCache[k] = "young"

Job(k, pc, linked, settled, got) ==
    [key |-> k, pc |-> pc, linked |-> linked, settled |-> settled, got |-> got]

\* The engine processes that are writing the file now at output_<k>.mp3.
Writers(k) == {j \in JobIds : jobs[j].key = k /\ jobs[j].pc = "running" /\ jobs[j].linked}

\* fs.unlink(output_<k>.mp3) took effect: the path is gone, and an engine
\* that had the file open goes on writing a file no path leads to.
Unlinked(js, k) == [j \in JobIds |-> IF js[j].key = k THEN [js[j] EXCEPT !.linked = FALSE]
                                                     ELSE js[j]]

\* convertAudioToMp3(buffer, mimetype, k) up to its throw or its first await;
\* op names the caller.
ConvertAudioToMp3(k, op) ==
    IF ~ffmpegAvailable
    THEN /\ lastOp' = Op(op, k, "engine_unavailable", {})
         /\ UNCHANGED audioVars
    ELSE /\ numCalls < MaxCalls
         /\ numCalls' = numCalls + 1
         /\ \E j \in JobIds :
              /\ jobs[j] = NoJob /\ \A i \in 1..(j - 1) : jobs[i] # NoJob
              /\ jobs' = [jobs EXCEPT ![j] =
                            Job(k, IF CacheHit(k) THEN "hit_read" ELSE "setup", FALSE, FALSE,
                                "none")]
         /\ lastOp' = Op(op, k, IF CacheHit(k) THEN "cache_hit" ELSE "converting", {})
         /\ UNCHANGED <<ffmpegAvailable, mediaMimetype, audioConversionCache, inputFile,
                        outputFile, sweep>>

\* A caller of the public method, for the media of message k.
ConvertCall(k) ==
    /\ k \in Keys
    /\ ConvertAudioToMp3(k, "convertCall")
    /\ UNCHANGED sessionVars

\* The slice of the GET media routes that follows the download of the media
\* of message k: format validation, then the conversion when it is asked for.
MediaRoute(k, format) ==
    /\ k \in Keys
    /\ IF ~IsValidFormat(format, mediaMimetype[k])
       THEN /\ lastOp' = Op("mediaRoute", k, "unsupported_format", {})
            /\ UNCHANGED audioVars
       ELSE IF RouteConverts(format, mediaMimetype[k])
            THEN ConvertAudioToMp3(k, "mediaRoute")
            ELSE /\ lastOp' = Op("mediaRoute", k, "original", {})
                 /\ UNCHANGED audioVars
    /\ UNCHANGED sessionVars

\* The cached file was read (or the read failed): the call settles.
HitReadDone(j) ==
    /\ jobs[j].pc = "hit_read"
    /\ jobs' = [jobs EXCEPT ![j] = NoJob]
    /\ lastOp' = Op("hitReadDone", jobs[j].key,
                    CASE outputFile[jobs[j].key] = "absent" -> "read_error"
                      [] outputFile[jobs[j].key] = "partial" -> "partial"
                      [] OTHER -> "artifact", {})
    /\ UNCHANGED <<numCalls, ffmpegAvailable, mediaMimetype, audioConversionCache, inputFile,
                   outputFile, sweep>>
    /\ UNCHANGED sessionVars

\* initializeAudioCache and fs.writeFile(inputPath) are done and the engine is
\* started on output_<k>.mp3, which it creates or truncates; ~ok: the write
\* failed and the call rejects.
SetupDone(j, ok) ==
    /\ jobs[j].pc = "setup"
    /\ IF ok
       THEN /\ inputFile' = [inputFile EXCEPT ![jobs[j].key] = TRUE]
            /\ outputFile' = [outputFile EXCEPT ![jobs[j].key] = "partial"]
            /\ jobs' = [jobs EXCEPT ![j].pc = "running", ![j].linked = TRUE]
            /\ lastOp' = Op("setupDone", jobs[j].key, "engine_started", {})
       ELSE /\ jobs' = [jobs EXCEPT ![j] = NoJob]
            /\ lastOp' = Op("setupDone", jobs[j].key, "setup_error", {})
            /\ UNCHANGED <<inputFile, outputFile>>
    /\ UNCHANGED <<numCalls, ffmpegAvailable, mediaMimetype, audioConversionCache, sweep>>
    /\ UNCHANGED sessionVars

\* The engine finished its output and emits 'end': the handler starts to read
\* output_<k>.mp3.  The file at the path is complete when this engine wrote
\* it and no other engine is still writing it.
EngineEnd(j) ==
    /\ jobs[j].pc = "running"
    /\ outputFile' = [outputFile EXCEPT ![jobs[j].key] =
                        IF jobs[j].linked /\ Writers(jobs[j].key) = {j}
                        THEN "complete" ELSE @]
    /\ jobs' = [jobs EXCEPT ![j].pc = "end_read"]
    /\ lastOp' = Op("engineEnd", jobs[j].key, "reading", {})
    /\ UNCHANGED <<numCalls, ffmpegAvailable, mediaMimetype, audioConversionCache, inputFile, sweep>>
    /\ UNCHANGED sessionVars

\* fs.readFile(outputPath) and fs.stat(outputPath) of the 'end' handler are
\* done: the entry is stored with a fresh timestamp and the input file is
\* being unlinked; when the path is gone the call rejects with the read error.
EndReadDone(j) ==
    /\ jobs[j].pc = "end_read"
    /\ IF outputFile[jobs[j].key] = "absent"
       THEN /\ jobs' = [jobs EXCEPT ![j] = NoJob]
            /\ lastOp' = Op("endReadDone", jobs[j].key, "read_error", {})
            /\ UNCHANGED <<audioConversionCache, sweep>>
       ELSE /\ audioConversionCache' = [audioConversionCache EXCEPT ![jobs[j].key] = "young"]
            /\ sweep' = [sweep EXCEPT !.expired = @ \ {jobs[j].key}]
            /\ jobs' = [jobs EXCEPT ![j].pc = "end_unlink",
                                    ![j].got = outputFile[jobs[j].key]]
            /\ lastOp' = Op("endReadDone", jobs[j].key, "stored", {})
    /\ UNCHANGED <<numCalls, ffmpegAvailable, mediaMimetype, inputFile, outputFile>>
    /\ UNCHANGED sessionVars

\* fs.unlink(inputPath) of the 'end' handler is done: the call resolves with
\* the buffer it read.
EndUnlinkDone(j) ==
    /\ jobs[j].pc = "end_unlink"
    /\ inputFile' = [inputFile EXCEPT ![jobs[j].key] = FALSE]
    /\ jobs' = [jobs EXCEPT ![j] = NoJob]
    /\ lastOp' = Op("endUnlinkDone", jobs[j].key,
                    IF jobs[j].got = "complete" THEN "artifact" ELSE "partial", {})
    /\ UNCHANGED <<numCalls, ffmpegAvailable, mediaMimetype, audioConversionCache, outputFile, sweep>>
    /\ UNCHANGED sessionVars

\* The AUDIO_CONVERSION_TIMEOUT timer fires while the engine runs:
\* ffmpegCommand.kill('SIGKILL') and reject.
ConversionTimeout(j) ==
    /\ jobs[j].pc = "running"
    /\ jobs' = [jobs EXCEPT ![j].pc = "killed", ![j].settled = TRUE]
    /\ lastOp' = Op("conversionTimeout", jobs[j].key, "timeout", {})
    /\ UNCHANGED <<numCalls, ffmpegAvailable, mediaMimetype, audioConversionCache, inputFile,
                   outputFile, sweep>>
    /\ UNCHANGED sessionVars

\* The engine emits 'error' (it failed, or it was killed): the handler starts
\* to unlink the input file.
EngineError(j) ==
    /\ jobs[j].pc \in {"running", "killed"}
    /\ jobs' = [jobs EXCEPT ![j].pc = "err_unlink_input"]
    /\ lastOp' = Op("engineError", jobs[j].key, "cleaning", {})
    /\ UNCHANGED <<numCalls, ffmpegAvailable, mediaMimetype, audioConversionCache, inputFile,
                   outputFile, sweep>>
    /\ UNCHANGED sessionVars

\* fs.unlink(inputPath) of the 'error' handler is done (errors are ignored);
\* fs.unlink(outputPath) is next.
ErrUnlinkInputDone(j) ==
    /\ jobs[j].pc = "err_unlink_input"
    /\ inputFile' = [inputFile EXCEPT ![jobs[j].key] = FALSE]
    /\ jobs' = [jobs EXCEPT ![j].pc = "err_unlink_output"]
    /\ lastOp' = Op("errUnlinkInputDone", jobs[j].key, "cleaning", {})
    /\ UNCHANGED <<numCalls, ffmpegAvailable, mediaMimetype, audioConversionCache, outputFile, sweep>>
    /\ UNCHANGED sessionVars

\* Mutant: the 'error' handler leaves the partial output in place.
ErrorOutputKept(k) == outputFile

\* `await fs.unlink(outputPath)` of the 'error' handler: the file at the
\* output path of k is gone afterwards, whether the call removed it or found
\* none.
ErrorOutputRemoved(k) == [outputFile EXCEPT ![k] = "absent"]

\* fs.unlink(outputPath) of the 'error' handler is done (errors are ignored):
\* reject, which has no effect when the timeout rejected before.
ErrUnlinkOutputDone(j) ==
    /\ jobs[j].pc = "err_unlink_output"
    /\ outputFile' = ErrorOutputRemoved(jobs[j].key)
    /\ jobs' = [Unlinked(jobs, jobs[j].key) EXCEPT ![j] = NoJob]
    /\ lastOp' = Op("errUnlinkOutputDone", jobs[j].key,
                    IF jobs[j].settled THEN "timeout" ELSE "conversion_failed", {})
    /\ UNCHANGED <<numCalls, ffmpegAvailable, mediaMimetype, audioConversionCache, inputFile, sweep>>
    /\ UNCHANGED sessionVars

\* The loop of cleanupAudioCache goes on after key c: it stops at the next
\* entry that `now - cacheInfo.timestamp > TTL` holds for, with `now` read
\* once when the sweep began, and awaits the unlink of its file.
SweepRun(c, expired) ==
    LET cand == {k \in expired : k > c}
    IN  IF cand = {} THEN NoSweep
        ELSE [pc |-> "unlink", key |-> CHOOSE x \in cand : \A y \in cand : x <= y,
              expired |-> expired]

\* The audio cleanup interval fires; the previous sweep has ended.
CleanupAudioCache ==
    /\ sweep = NoSweep
    /\ sweep' = SweepRun(0, {k \in Keys : audioConversionCache[k] = "old"})
    /\ lastOp' = Op("cleanupAudioCache", sweep'.key, sweep'.pc, {})
    /\ UNCHANGED <<numCalls, ffmpegAvailable, mediaMimetype, audioConversionCache, inputFile,
                   outputFile, jobs>>
    /\ UNCHANGED sessionVars

\* fs.unlink(cacheInfo.filePath) of the sweep is done or has failed: either
\* way this.audioConversionCache.delete(mediaId), and the loop goes on.
SweepUnlinkDone ==
    /\ sweep.pc = "unlink"
    /\ outputFile' = [outputFile EXCEPT ![sweep.key] = "absent"]
    /\ jobs' = Unlinked(jobs, sweep.key)
    /\ audioConversionCache' = [audioConversionCache EXCEPT ![sweep.key] = "none"]
    /\ sweep' = SweepRun(sweep.key, sweep.expired)
    /\ lastOp' = Op("sweepUnlinkDone", sweep.key,
                    IF outputFile[sweep.key] = "absent" THEN "unlink_failed" ELSE "unlinked", {})
    /\ UNCHANGED <<numCalls, ffmpegAvailable, mediaMimetype, inputFile>>
    /\ UNCHANGED sessionVars

\* Time passes: the age of the entry of k reaches, then exceeds, the TTL.
AgeTick(k) ==
    /\ k \in Keys
    /\ audioConversionCache[k] \in {"young", "atTTL"}
    /\ audioConversionCache' = [audioConversionCache EXCEPT ![k] =
                                  IF @ = "young" THEN "atTTL" ELSE "old"]
    /\ lastOp' = Op("ageTick", k, "ok", {})
    /\ UNCHANGED <<numCalls, ffmpegAvailable, mediaMimetype, inputFile, outputFile, jobs, sweep>>
    /\ UNCHANGED sessionVars

\* ------------------------------------------------------ specifications
RegistryNext ==
    \/ \E u \in Users : GetOrCreateSession(u)
    \/ \E s \in SessionIds : Logout(s)
    \/ \E t \in InFlight, ok \in BOOLEAN : TeardownDone(t, ok)
    \/ \E t \in InFlight : RmDone(t)

StartNext ==
    \/ \E s \in SessionIds : StartRequest(s)
    \/ \E t \in InFlight : StartDelayDone(t)
    \/ \E t \in InFlight, ok \in BOOLEAN : PrimaryAttach(t, ok)
    \/ \E t \in InFlight, ok \in BOOLEAN : PrimaryInitDone(t, ok)
    \/ \E t \in InFlight, ok \in BOOLEAN : PrimaryCleanupDone(t, ok)
    \/ \E t \in InFlight, ok \in BOOLEAN : FallbackAttach(t, ok)
    \/ \E t \in InFlight, ok \in BOOLEAN : FallbackInitDone(t, ok)

EventNext ==
    \E e \in EngineIds, ev \in EventNames : EngineEvent(e, ev)

QrNext ==
    \/ \E e \in EngineIds : QrEvent(e)
    \/ \E t \in InFlight, ok \in BOOLEAN : QrDone(t, ok)

ReconnectNext ==
    \/ \E s \in SessionIds : ApiReconnect(s)
    \/ \E s \in SessionIds, fb \in BOOLEAN : ReconnectWithRoutines(s, fb)
    \/ \E t \in InFlight, ok \in BOOLEAN : ReconnectTeardownDone(t, ok)

\* The registry and the start route, for several sessions.
Next == RegistryNext \/ StartNext

Spec == Init /\ [][Next]_vars

\* One session, created by getOrCreateSession(1, ...), and everything that can
\* then happen to it: start, engine events, reconnection and logout.
InitOne ==
    /\ sessions = {1}
    /\ rec = [s \in SessionIds |-> IF s = 1 THEN NewRecord(1) ELSE NoRecord]
    /\ userSessions = [u \in Users |-> IF u = 1 THEN 1 ELSE 0]
    /\ nextSid = 2
    /\ engines = <<>>
    /\ tasks = EmptyBag
    /\ lastOp = Op("getOrCreate", 1, "created", {})
    /\ AudioConstructed(TRUE, [k \in Keys |-> Mimetypes[1]])

NextSession ==
    \/ \E s \in {1} : Logout(s)
    \/ \E t \in InFlight, ok \in BOOLEAN : TeardownDone(t, ok)
    \/ \E t \in InFlight : RmDone(t)
    \/ StartNext
    \/ EventNext
    \/ ReconnectNext

SpecSession == InitOne /\ [][NextSession]_vars

\* One session and the engines its start requests attach, with every event an
\* engine emits, the qr events and their asynchronous handlers included.
NextEvents ==
    \/ StartNext
    \/ EventNext
    \/ QrNext

SpecEvents == InitOne /\ [][NextEvents]_vars

\* One session, its start requests and engine events, and the time that passes
\* between them.
NextClock ==
    \/ StartNext
    \/ EventNext
    \/ \E e \in EngineIds : ClockTick(e)

SpecClock == InitOne /\ [][NextClock]_vars

\* The supervisor: two sessions of one user.  Session 1 was started and then
\* superseded by the getOrCreateSession call that returned session 2, and its
\* teardown is pending; session 2 is the current one, with or without an
\* engine.  Flags and idle times are the ones events and time can have left.
InitSupervisor ==
    /\ sessions = {1, 2}
    /\ userSessions = [u \in Users |-> IF u = 1 THEN 2 ELSE 0]
    /\ nextSid = 3
    /\ \E r1, r2 \in BOOLEAN, started \in BOOLEAN, i1, i2 \in 1..Len(IdleClasses) :
          /\ rec = [s \in SessionIds |->
                      IF s = 1 THEN [NewRecord(1) EXCEPT !.client = 1, !.isReady = r1,
                                        !.isAuthenticated = r1, !.idle = IdleClasses[i1]]
                      ELSE IF s = 2
                      THEN [NewRecord(1) EXCEPT !.client = IF started THEN 2 ELSE NoClient,
                                        !.isReady = started /\ r2,
                                        !.isAuthenticated = started /\ r2,
                                        !.idle = IdleClasses[i2]]
                      ELSE NoRecord]
          /\ engines = IF started
                       THEN CreateEngine(CreateEngine(<<>>, 1, FALSE), 2, FALSE)
                       ELSE CreateEngine(<<>>, 1, FALSE)
    /\ tasks = SetToBag({Task("destroy", 1, "teardown", 1, FALSE, FALSE)})
    /\ lastOp = OpSup("getOrCreate", 2, "superseded", {}, 1)
    /\ AudioConstructed(TRUE, [k \in Keys |-> Mimetypes[1]])

HealthNext ==
    \/ HealthCheck
    \/ \E t \in InFlight, ok \in BOOLEAN : HealthProbeDone(t, ok)
    \/ \E t \in InFlight, ok \in BOOLEAN : HealthTeardownDone(t, ok)

TimeNext ==
    \/ \E s \in SessionIds : Tick(s)
    \/ \E s \in SessionIds : Touch(s)

NextSupervisor ==
    \/ HealthNext
    \/ TimeNext
    \/ \E t \in InFlight, ok \in BOOLEAN : TeardownDone(t, ok)
    \/ \E t \in InFlight : RmDone(t)
    \/ EventNext
    \/ \E s \in SessionIds : ApiReconnect(s)
    \/ \E t \in InFlight, ok \in BOOLEAN : ReconnectTeardownDone(t, ok)

SpecSupervisor == InitSupervisor /\ [][NextSupervisor]_vars

\* One session with its start requests, engine events and reconnections, and
\* the callers that ask whether a session is healthy.
HealthyNext ==
    \/ \E s \in SessionIds : IsSessionHealthy(s)
    \/ \E t \in InFlight, ok \in BOOLEAN : HealthyProbeDone(t, ok)

NextHealthy ==
    \/ HealthyNext
    \/ StartNext
    \/ EventNext
    \/ \E s \in SessionIds : ApiReconnect(s)
    \/ \E t \in InFlight, ok \in BOOLEAN : ReconnectTeardownDone(t, ok)

SpecHealthy == InitOne /\ [][NextHealthy]_vars

\* The media of the messages: voice notes, and a last message of any type.
MediaAssignments ==
    {m \in [Keys -> MimetypeSet] : \A k \in Keys : k < NumKeys => m[k] = Mimetypes[1]}

\* The audio conversion cache: convert calls, the engine runs they start, the
\* periodic sweep and the passing of time.
InitAudio ==
    /\ sessions = {}
    /\ rec = [s \in SessionIds |-> NoRecord]
    /\ userSessions = [u \in Users |-> 0]
    /\ nextSid = 1
    /\ engines = <<>>
    /\ tasks = EmptyBag
    /\ lastOp = Op("init", 0, "ok", {})
    /\ \E avail \in BOOLEAN, mimes \in MediaAssignments : AudioConstructed(avail, mimes)

ConvertNext ==
    \/ \E k \in Keys : ConvertCall(k)
    \/ \E k \in Keys, format \in Formats : MediaRoute(k, format)
    \/ \E j \in JobIds : HitReadDone(j)
    \/ \E j \in JobIds, ok \in BOOLEAN : SetupDone(j, ok)
    \/ \E j \in JobIds : EngineEnd(j)
    \/ \E j \in JobIds : EndReadDone(j)
    \/ \E j \in JobIds : EndUnlinkDone(j)
    \/ \E j \in JobIds : ConversionTimeout(j)
    \/ \E j \in JobIds : EngineError(j)
    \/ \E j \in JobIds : ErrUnlinkInputDone(j)
    \/ \E j \in JobIds : ErrUnlinkOutputDone(j)

SweepNext ==
    \/ CleanupAudioCache
    \/ SweepUnlinkDone
    \/ \E k \in Keys : AgeTick(k)

NextAudio == ConvertNext \/ SweepNext

SpecAudio == InitAudio /\ [][NextAudio]_vars

\* The two timeout sweeps beside the supervisor cycle, engine events and the
\* passing of time.
TimeoutNext ==
    \/ CleanupInactiveSessions
    \/ CleanupUnfinishedSessions

NextSweeps ==
    \/ TimeoutNext
    \/ HealthNext
    \/ TimeNext
    \/ \E t \in InFlight, ok \in BOOLEAN : TeardownDone(t, ok)
    \/ \E t \in InFlight : RmDone(t)
    \/ EventNext

SpecSweeps == InitSupervisor /\ [][NextSweeps]_vars

\* The sweeps, the supervisor cycle and the passing of time beside the
\* creation of a further session for the same user.
NextRegistrySweeps ==
    \/ \E u \in Users : GetOrCreateSession(u)
    \/ TimeoutNext
    \/ HealthNext
    \/ TimeNext
    \/ \E t \in InFlight, ok \in BOOLEAN : TeardownDone(t, ok)
    \/ \E t \in InFlight : RmDone(t)

SpecRegistrySweeps == InitSupervisor /\ [][NextRegistrySweeps]_vars

\* The supervisor's initial states where every registered session has
\* authenticated.
InitAuthenticated ==
    /\ InitSupervisor
    /\ \A s \in sessions : rec[s].isAuthenticated

\* Only the supervisor cycle, the sweeps, the passing of time and the
\* completion of pending teardowns: no engine event and no new session.
NextAuthenticated ==
    \/ TimeoutNext
    \/ HealthNext
    \/ TimeNext
    \/ \E t \in InFlight, ok \in BOOLEAN : TeardownDone(t, ok)
    \/ \E t \in InFlight : RmDone(t)

SpecAuthenticated == InitAuthenticated /\ [][NextAuthenticated]_vars

\* The event loop runs every continuation whose promise has settled, and the
\* sweep intervals keep firing.
SweepProgress ==
    \/ \E t \in InFlight, ok \in BOOLEAN : TeardownDone(t, ok)
    \/ \E t \in InFlight : RmDone(t)

SpecSweepsFair ==
    /\ SpecSweeps
    /\ WF_vars(SweepProgress)
    /\ WF_vars(CleanupInactiveSessions)


\* A suspended reconnectSession body resumes: the promise it awaits (an engine
\* call raced against a timer, or a file-system call) settles and the event
\* loop runs its continuation.
ReconnectProgress ==
    \E t \in InFlight, ok \in BOOLEAN :
        /\ t.kind = "reconnect"
        /\ \/ ReconnectTeardownDone(t, ok)
           \/ PrimaryAttach(t, ok)
           \/ PrimaryInitDone(t, ok)
           \/ PrimaryCleanupDone(t, ok)
           \/ FallbackAttach(t, ok)
           \/ FallbackInitDone(t, ok)

SpecSessionFair == SpecSession /\ WF_vars(ReconnectProgress)

\* ================================================================ claims
\* A later getOrCreateSession call was made for the user of s.
Superseded(s) == \E x \in Minted : x > s /\ rec[x].userId = rec[s].userId

\* destroySession(s) has been called and has not returned yet.
BeingDestroyed(s) == \E t \in InFlight : t.kind = "destroy" /\ t.sid = s

\* The id the previous getOrCreateSession call for the same user returned.
PreviousOf(new) ==
    LET before == {x \in Minted : x < new /\ rec[x].userId = rec[new].userId}
    IN  IF before = {} THEN 0 ELSE CHOOSE x \in before : \A y \in before : y <= x

C2_Claim ==
    \A s \in sessions : ~Superseded(s) => userSessions[rec[s].userId] = s

\* C3 as stated: after the second of two getOrCreateSession calls for one user
\* has returned, the two ids differ and the first is not in the session index.
C3_Claim ==
    (lastOp.op = "getOrCreate" /\ PreviousOf(lastOp.sid) # 0) =>
        /\ PreviousOf(lastOp.sid) # lastOp.sid
        /\ PreviousOf(lastOp.sid) \notin sessions

\* C3 amended: after the second call has returned the ids differ and the first
\* is not the user's current session; a first id that the call found registered
\* for the user with no engine attached is out of the session index, one it
\* found with an engine attached is still in it, its teardown pending.
C3_Amended ==
    (lastOp.op = "getOrCreate" /\ PreviousOf(lastOp.sid) # 0) =>
        LET first == PreviousOf(lastOp.sid) IN
        /\ first # lastOp.sid
        /\ ~IsUserSessionCurrent(first)
        /\ IsUserSessionCurrent(lastOp.sid)
        /\ (lastOp.old = first /\ rec[first].client = NoClient) => first \notin sessions
        /\ (lastOp.old = first /\ rec[first].client # NoClient) =>
              first \in sessions /\ BeingDestroyed(first)

\* C3 witness: the second call found the first record without an engine and
\* removed it before returning.
C3_Witness ==
    /\ lastOp.op = "getOrCreate" /\ lastOp.res = "superseded"
    /\ lastOp.old = PreviousOf(lastOp.sid)
    /\ rec[lastOp.old].client = NoClient
    /\ lastOp.old \notin sessions

\* C4: when a destroySession call on a registered session returns, the session
\* is in neither index map and session_destroyed has been published, also when
\* the engine's destroy() was rejected.
C4_Claim ==
    lastOp.op = "destroyReturn" =>
        /\ lastOp.sid \notin sessions
        /\ \A u \in Users : userSessions[u] # lastOp.sid
        /\ "session_destroyed" \in lastOp.emitted

\* C5: destroySession on an id that was destroyed before is a no-op: it starts
\* no teardown, changes neither index map, no record and no engine, and
\* publishes nothing.
C5_DestroyedIsNoop ==
    [][\A s \in SessionIds :
          (Logout(s) /\ s \notin sessions) =>
              /\ UNCHANGED <<sessions, rec, userSessions, nextSid, engines, tasks>>
              /\ lastOp' = Op("destroyCall", s, "noop", {})]_vars

\* C5 witness: a second destroySession call on an id whose first call has
\* removed it from the registry.
C5_Witness ==
    /\ lastOp.op = "destroyCall" /\ lastOp.res = "noop"
    /\ lastOp.sid \in Minted \ sessions

\* C6 as stated: for a destroyed or superseded record both indexes agree in
\* every state: the user index maps its user to it exactly when the session
\* index resolves it.
C6_Claim ==
    \A s \in Minted :
        (s \notin sessions \/ BeingDestroyed(s) \/ Superseded(s)) =>
            (s \in sessions <=> userSessions[rec[s].userId] = s)

\* C6 amended: a destroyed record is out of both indexes in every state: no
\* state has the user index naming an id the session index does not resolve.
C6_Amended ==
    \A s \in Minted : s \notin sessions => \A u \in Users : userSessions[u] # s

\* C6 witness: the asynchronous teardown of a record has just removed it.
C6_Witness ==
    /\ lastOp.op = "teardownDone"
    /\ lastOp.sid \in Minted \ sessions

\* The engines created for session object s that have not been destroyed.
LiveEnginesOf(s) == {e \in 1..Len(engines) : engines[e].live /\ engines[e].sid = s}

\* C7: a start request on a current session that has an engine handle is
\* answered 'Session already started' and creates nothing: no task, no engine,
\* no change of the record.
C7_StartIdempotent ==
    [][\A s \in SessionIds :
          (StartRequest(s) /\ IsUserSessionCurrent(s) /\ rec[s].client # NoClient) =>
              /\ lastOp' = Op("startRequest", s, "already_started", {})
              /\ UNCHANGED <<sessions, rec, userSessions, nextSid, engines, tasks>>]_vars

\* C7 witness: the request was answered on a READY session with one engine.
C7_Witness ==
    /\ lastOp.op = "startRequest" /\ lastOp.res = "already_started"
    /\ rec[lastOp.sid].isReady
    /\ Cardinality(LiveEnginesOf(lastOp.sid)) = 1

\* C8: a registered record that is ready or authenticated has an engine
\* handle (a record with client = null is in CREATED).
C8_Claim ==
    \A s \in sessions :
        (rec[s].isReady \/ rec[s].isAuthenticated) => rec[s].client # NoClient

\* The suspended reconnectSession bodies of session s, with multiplicity.
ReconnectBodies(s) ==
    LET ts == {t \in InFlight : t.kind = "reconnect" /\ t.sid = s}
    IN  IF ts = {} THEN 0
        ELSE IF Cardinality(ts) = 1 THEN CopiesIn(CHOOSE t \in ts : TRUE, tasks) ELSE 2

\* C9: at most one reconnectSession body is in progress per session, the flag
\* is set while it is, and a call that finds the flag set returns at once:
\* it starts no task, destroys no engine, changes no record, publishes nothing.
C9_ReconnectMutex ==
    /\ [](\A s \in SessionIds :
            /\ ReconnectBodies(s) <= 1
            /\ ReconnectBodies(s) = 1 => rec[s].reconnecting)
    /\ [][\A s \in SessionIds :
            (rec[s].reconnecting /\ s \in sessions
               /\ (ApiReconnect(s) \/ \E fb \in BOOLEAN : ReconnectWithRoutines(s, fb))) =>
                /\ lastOp' = Op("reconnectCall", s, "skipped", {})
                /\ UNCHANGED <<sessions, rec, userSessions, nextSid, engines, tasks>>]_vars

\* C9 witness: a call was dropped while a body of the same session was
\* suspended in its engine teardown.
C9_Witness ==
    /\ lastOp.op = "reconnectCall" /\ lastOp.res = "skipped"
    /\ \E t \in InFlight : t.kind = "reconnect" /\ t.sid = lastOp.sid /\ t.pc = "rc_destroy"

\* C10: a set reconnecting flag is eventually cleared; reconnectSession returns
\* with the flag cleared on each of its exits, and a registered session then
\* passes the guard again.
C10_FlagCleared ==
    /\ \A s \in SessionIds : rec[s].reconnecting ~> ~rec[s].reconnecting
    /\ [](lastOp.op = "reconnectReturn" =>
            /\ ~rec[lastOp.sid].reconnecting
            /\ lastOp.sid \in sessions => ReconnectGuard(lastOp.sid))

\* C10 witness: an attempt whose primary and fallback start both failed has
\* returned, the failure is published and the flag is clear.
C10_Witness ==
    /\ lastOp.op = "reconnectReturn" /\ lastOp.res = "failed"
    /\ "reconnection_failed" \in lastOp.emitted
    /\ ~rec[lastOp.sid].reconnecting
    /\ ReconnectGuard(lastOp.sid)

\* C11 as stated: every reconnection attempt that passed the guard ends either
\* with an engine handle attached or with reconnection_failed published.
C11_Claim ==
    lastOp.op = "reconnectReturn" =>
        \/ rec[lastOp.sid].client # NoClient
        \/ "reconnection_failed" \in lastOp.emitted

\* A slice of a reconnection attempt of session s: the call, or the resumption
\* of its suspended body.
ReconnectSliceOf(s) ==
    \/ ApiReconnect(s)
    \/ \E fb \in BOOLEAN : ReconnectWithRoutines(s, fb)
    \/ \E t \in InFlight, ok \in BOOLEAN :
          /\ t.kind = "reconnect" /\ t.sid = s
          /\ \/ ReconnectTeardownDone(t, ok)
             \/ PrimaryAttach(t, ok)
             \/ PrimaryInitDone(t, ok)
             \/ PrimaryCleanupDone(t, ok)
             \/ FallbackAttach(t, ok)
             \/ FallbackInitDone(t, ok)

\* C12 as stated: no slice of a reconnection attempt turns isAuthenticated of
\* its session from true to false.
C12_Claim ==
    [][\A s \in SessionIds :
          (rec[s].isAuthenticated /\ ReconnectSliceOf(s)) => rec'[s].isAuthenticated]_vars

\* C12 amended: the slice of an attempt that publishes 'reconnecting' leaves
\* the record with isAuthenticated, isReady, qrCode and the engine handle reset;
\* the call that suspends at the teardown of the stale engine leaves
\* isAuthenticated as it was; and isAuthenticated turns true only in the
\* handler of an engine's authenticated event.
C12_Amended ==
    /\ []((lastOp.op \in {"reconnectStep", "reconnectReturn"}
            /\ "reconnecting" \in lastOp.emitted) =>
              /\ ~rec[lastOp.sid].isAuthenticated
              /\ ~rec[lastOp.sid].isReady
              /\ ~rec[lastOp.sid].qrCode
              /\ rec[lastOp.sid].client = NoClient)
    /\ [][\A s \in SessionIds :
            /\ (lastOp'.op = "reconnectCall" /\ lastOp'.sid = s) =>
                  rec'[s].isAuthenticated = rec[s].isAuthenticated
            /\ (~rec[s].isAuthenticated /\ rec'[s].isAuthenticated) =>
                  lastOp' = Op("event", s, "authenticated", {"authenticated"})]_vars

\* C12 witness: an attempt on an authenticated session has passed the guard
\* and is suspended at the teardown of the stale engine, before its reset.
C12_Witness ==
    /\ lastOp.op = "reconnectCall" /\ lastOp.res = "started"
    /\ rec[lastOp.sid].isAuthenticated
    /\ \E t \in InFlight : t.kind = "reconnect" /\ t.sid = lastOp.sid /\ t.pc = "rc_destroy"

\* C13 as stated: when the engine attached to a session emits disconnected,
\* isReady becomes false, every other field of the record is left as it is and
\* 'disconnected' is published, whichever routine started the engine.
C13_Claim ==
    [][\A e \in EngineIds :
          (EngineEvent(e, "disconnected") /\ rec[engines[e].sid].client = e) =>
              /\ rec'[engines[e].sid] = [rec[engines[e].sid] EXCEPT !.isReady = FALSE]
              /\ lastOp'.emitted = {"disconnected"}]_vars

\* C14 as stated: a registered session that is ready has no QR payload.
C14_Claim ==
    \A s \in sessions : rec[s].isReady => ~rec[s].qrCode

\* C15 as stated: a ready event on a ready session and an authenticated event
\* on an authenticated session change no record and publish nothing.
C15_Claim ==
    [][\A e \in EngineIds :
          /\ (EngineEvent(e, "ready") /\ rec[engines[e].sid].isReady) =>
                (rec' = rec /\ lastOp'.emitted = {})
          /\ (EngineEvent(e, "authenticated") /\ rec[engines[e].sid].isAuthenticated) =>
                (rec' = rec /\ lastOp'.emitted = {})]_vars

\* C16 as stated: the state change of a qr event is never applied after the
\* state change of an event the same engine emitted later.
C16_Claim ==
    ~(lastOp.op = "qrDone" /\ lastOp.res = "stored_late")

\* The CREATED state of a record.
Created(r) == r.client = NoClient /\ ~r.isReady /\ ~r.isAuthenticated /\ ~r.qrCode

\* C17 as stated: after a start that failed in both routines, and after an
\* error event of the engine, the record is in CREATED, no engine of the
\* session is live, and the error event has published the failure.
C17_Claim ==
    /\ (lastOp.op \in {"startReturn", "reconnectReturn"} /\ lastOp.res = "failed") =>
          (Created(rec[lastOp.sid]) /\ LiveEnginesOf(lastOp.sid) = {})
    /\ (lastOp.op = "event" /\ lastOp.res = "error") =>
          /\ Created(rec[lastOp.sid]) /\ LiveEnginesOf(lastOp.sid) = {}
          /\ "auth_failure" \in lastOp.emitted

\* C18 as stated: after an auth_failure event the failure is published, the
\* record is in CREATED and a start request for the session, if it is still
\* its user's current one, would go on to create an engine.
C18_Claim ==
    (lastOp.op = "event" /\ lastOp.res = "auth_failure") =>
        /\ "auth_failure" \in lastOp.emitted
        /\ Created(rec[lastOp.sid])
        /\ IsUserSessionCurrent(lastOp.sid) => StartVerdict(lastOp.sid) = "accepted"

\* C19: a start request for an id that is not registered is answered 'not
\* found', one for a registered session that is not the current session of its
\* user is answered 'superseded'; neither starts a task, creates an engine or
\* changes a record or an index map.
C19_StartMisuse ==
    [][\A s \in SessionIds :
          (StartRequest(s) /\ ~IsUserSessionCurrent(s)) =>
              /\ lastOp' = Op("startRequest", s,
                              IF s \in sessions THEN "superseded" ELSE "not_found", {})
              /\ UNCHANGED <<sessions, rec, userSessions, nextSid, engines, tasks>>]_vars

\* C19 witness: the request was made for a registered session that a later
\* getOrCreateSession call of its user has superseded.
C19_Witness ==
    /\ lastOp.op = "startRequest" /\ lastOp.res = "superseded"
    /\ lastOp.sid \in sessions
    /\ Superseded(lastOp.sid)

\* A slice of the supervisor cycle, and the record whose await it resumes
\* (0 for the slice that begins the cycle).
CycleSlice(resumed) ==
    \/ resumed = 0 /\ HealthCheck
    \/ \E t \in InFlight, ok \in BOOLEAN :
          /\ t.kind = "health" /\ t.sid = resumed
          /\ HealthProbeDone(t, ok) \/ HealthTeardownDone(t, ok)

ResetRecord(r) == [ReconnectReset(r) EXCEPT !.reconnecting = FALSE]

\* What a reconnection attempt of the cycle on record s does in its slice:
\* dropped when the flag is set or the id is gone; with an engine handle the
\* flag is set and the cycle waits for the teardown; without one the record
\* is reset at once.
AttemptsReconnect(s) ==
    IF s \notin sessions \/ rec[s].reconnecting
    THEN rec'[s] = rec[s] /\ \A t \in BagToSet(tasks') : t.kind = "health" => t.sid # s
    ELSE IF rec[s].client # NoClient
         THEN /\ rec'[s] = [rec[s] EXCEPT !.reconnecting = TRUE]
              /\ Task("health", s, "rc_destroy", rec[s].client, FALSE, FALSE) \in BagToSet(tasks')
         ELSE rec'[s] = ResetRecord(rec[s])

\* The first record after cursor c that the loop of the cycle does not skip,
\* or 0 when it skips them all.
FirstExamined(c) ==
    LET cand == {s \in sessions : s > c /\ IsUserSessionCurrent(s) /\ rec[s].idle # "fresh"}
    IN  IF cand = {} THEN 0 ELSE CHOOSE x \in cand : \A y \in cand : x <= y

\* A slice in which the loop of the cycle goes on from cursor c.
LoopRunsFrom(c) ==
    \/ c = 0 /\ HealthCheck
    \/ \E t \in InFlight, ok \in BOOLEAN :
          /\ t.kind = "health" /\ t.sid = c
          /\ (ok /\ HealthProbeDone(t, ok)) \/ HealthTeardownDone(t, ok)

\* C21: when the loop of a cycle reaches a record that is current for its
\* user and not recently active, it attempts reconnection in the same slice if
\* the record has no engine handle or is not ready, and otherwise starts a
\* probe of its engine and leaves the record as it is; when the probe fails or
\* times out the cycle attempts reconnection, when it answers the record is
\* left unchanged.
C21_SupervisorRule ==
    [][/\ \A c \in {0} \cup SessionIds :
            LET s == FirstExamined(c) IN
            (LoopRunsFrom(c) /\ s # 0) =>
                IF rec[s].client = NoClient \/ ~rec[s].isReady
                THEN AttemptsReconnect(s)
                ELSE /\ rec'[s] = rec[s]
                     /\ Task("health", s, "probe", rec[s].client, FALSE, FALSE)
                            \in BagToSet(tasks')
       /\ \A t \in InFlight :
            /\ HealthProbeDone(t, FALSE) => AttemptsReconnect(t.sid)
            /\ HealthProbeDone(t, TRUE) => rec'[t.sid] = rec[t.sid]]_vars

\* C21 witness: the probe of a ready, idle, current session has failed and the
\* cycle has started the reconnection of that session.
C21_Witness ==
    /\ lastOp.op = "healthProbeDone" /\ lastOp.res = "rc_destroy"
    /\ IsUserSessionCurrent(lastOp.sid)
    /\ rec[lastOp.sid].reconnecting

\* C22: isSessionHealthy returns false at once when the session is unknown,
\* has no engine handle, is not ready or is reconnecting, and returns false
\* when its probe fails or times out; it returns true only when the probe
\* answers; no slice of it changes the record or either index map.
C22_HealthyContract ==
    [][/\ \A s \in SessionIds :
            IsSessionHealthy(s) =>
                /\ (s \notin sessions \/ rec[s].client = NoClient \/ ~rec[s].isReady
                        \/ rec[s].reconnecting) => lastOp'.res = "false"
                /\ lastOp'.res # "true"
                /\ UNCHANGED <<sessions, rec, userSessions>>
       /\ \A t \in InFlight :
            /\ HealthyProbeDone(t, FALSE) =>
                  lastOp'.res = "false" /\ UNCHANGED <<sessions, rec, userSessions>>
            /\ HealthyProbeDone(t, TRUE) =>
                  lastOp'.res = "true" /\ UNCHANGED <<sessions, rec, userSessions>>]_vars

\* C22 witness: a call on a reconnecting session answered false at once, while
\* the session's engine is still alive.
C22_Witness ==
    /\ lastOp.op = "isSessionHealthy" /\ lastOp.res = "false"
    /\ lastOp.sid \in sessions
    /\ rec[lastOp.sid].reconnecting
    /\ rec[lastOp.sid].isReady
    /\ EngineLive(rec[lastOp.sid].client)

\* The calls in flight whose engine has been started, and the slices in which
\* a convert call for k is made and gets past the engine check.
EngineStarted(j) == jobs[j].pc \notin {"idle", "hit_read", "setup"}
ConvertAdmitted(k) ==
    /\ ConvertCall(k) \/ \E format \in Formats : MediaRoute(k, format)
    /\ numCalls' = numCalls + 1

\* C23 as stated: convert calls for one key that overlap in time invoke the
\* engine once: of the calls in flight for a key, at most one has started an
\* engine.
C23_Claim ==
    \A i, j \in JobIds :
        (i # j /\ jobs[i].key = jobs[j].key /\ EngineStarted(i)) => ~EngineStarted(j)

\* C24 as stated: an entry is stored only when its artifact is completely
\* written and no engine is writing it, and no convert call resolves with the
\* content of a file that is still being written.
C24_Claim ==
    [][\A j \in JobIds :
          /\ (EndReadDone(j) /\ audioConversionCache' # audioConversionCache) =>
                 outputFile[jobs[j].key] = "complete" /\ Writers(jobs[j].key) = {}
          /\ (HitReadDone(j) \/ EndUnlinkDone(j)) => lastOp'.res # "partial"]_vars

\* C25 as stated: a convert call whose key has an entry younger than the TTL
\* starts no engine (it only reads the stored file) and resolves with the
\* stored artifact.
C25_Claim ==
    [][/\ \A k \in Keys :
            (ConvertAdmitted(k) /\ audioConversionCache[k] = "young") =>
                /\ lastOp'.res = "cache_hit"
                /\ \A j \in JobIds : jobs'[j] # jobs[j] => jobs'[j].pc = "hit_read"
                /\ UNCHANGED <<audioConversionCache, inputFile, outputFile>>
       /\ \A j \in JobIds : HitReadDone(j) => lastOp'.res = "artifact"]_vars

\* C26: a convert call for a key whose entry has reached the TTL (its age
\* equals or exceeds it) is not served from the entry, even when the entry is
\* still in the index and its file exists: the call sets out on a new
\* conversion; only a call that finds an entry younger than the TTL goes on
\* to read the stored file.
C26_ExpiredNotServed ==
    [][\A k \in Keys :
          ConvertAdmitted(k) =>
              /\ audioConversionCache[k] \in {"atTTL", "old"} =>
                    /\ lastOp'.res = "converting"
                    /\ \A j \in JobIds : jobs'[j] # jobs[j] =>
                           jobs'[j] = Job(k, "setup", FALSE, FALSE, "none")
              /\ lastOp'.res = "cache_hit" => audioConversionCache[k] = "young"]_vars

\* C26 witness: a call set out on a new conversion for a key whose entry, of
\* age equal to the TTL, is still in the index with its file in place.
C26_Witness ==
    /\ lastOp.op \in {"convertCall", "mediaRoute"} /\ lastOp.res = "converting"
    /\ audioConversionCache[lastOp.sid] = "atTTL"
    /\ outputFile[lastOp.sid] = "complete"
    /\ \E j \in JobIds : jobs[j] = Job(lastOp.sid, "setup", FALSE, FALSE, "none")

SweepSlice == CleanupAudioCache \/ SweepUnlinkDone

\* C28 as stated: the sweep drops the entry it visited as older than the TTL
\* whether or not the unlink of its file succeeded, and no slice of a sweep
\* touches an entry that is younger than the TTL or the file of such an entry.
C28_Claim ==
    [][/\ SweepUnlinkDone => audioConversionCache'[sweep.key] = "none"
       /\ \A k \in Keys :
            (SweepSlice /\ audioConversionCache[k] = "young") =>
                /\ audioConversionCache'[k] = "young"
                /\ outputFile'[k] = outputFile[k]]_vars

\* C29 as stated: for media whose type needs no conversion
\* (needsAudioConversion is false for it) a convert call is a pass-through: no
\* engine was started for it, no file of it was written and it has no entry.
C29_Claim ==
    \A k \in Keys :
        ~NeedsAudioConversion(mediaMimetype[k]) =>
            /\ \A j \in JobIds : jobs[j].key = k => ~EngineStarted(j)
            /\ ~inputFile[k]
            /\ outputFile[k] = "absent"
            /\ audioConversionCache[k] = "none"

DestroyedBySweep(s) ==
    /\ s \in sessions
    /\ \/ s \notin sessions'
       \/ BagCardinality(tasks') > BagCardinality(tasks)
            /\ CopiesIn(Task("destroy", s, "teardown", rec[s].client, FALSE, FALSE), tasks')
                 > CopiesIn(Task("destroy", s, "teardown", rec[s].client, FALSE, FALSE), tasks)

\* C31: the unfinished-session sweep calls destroySession for a session only
\* if the session is, at that moment, not ready, not authenticated and idle
\* for more than 15 minutes, and for every registered session that is; a
\* session that is ready or authenticated is not destroyed by it.
C31_UnfinishedSweepRule ==
    [][CleanupUnfinishedSessions =>
          \A s \in sessions :
              DestroyedBySweep(s) <=>
                  (~rec[s].isReady /\ ~rec[s].isAuthenticated
                      /\ rec[s].idle \in {"idle15", "idle24"})]_vars

\* C31 witness: the sweep has just run and left alone a registered session
\* that is authenticated, not ready and idle for more than 15 minutes, while
\* it destroyed another one.
C31_Witness ==
    /\ lastOp.op = "cleanupUnfinishedSessions" /\ lastOp.res = "swept"
    /\ \E s \in sessions :
          /\ rec[s].isAuthenticated /\ ~rec[s].isReady
          /\ rec[s].idle \in {"idle15", "idle24"}
          /\ \A t \in InFlight : t.kind = "destroy" => t.sid # s

\* The inactive-session sweep has just run and called destroySession for s,
\* which is still registered while its engine teardown is awaited.
SweptInactive(s) ==
    /\ lastOp.op = "cleanupInactiveSessions"
    /\ s \in sessions
    /\ rec[s].idle = "idle24"

\* C32 as stated: every session that is idle for more than 24 hours when the
\* inactive-session sweep runs is eventually absent from the registry with
\* its engine torn down, and the sweep calls destroySession for no session
\* that is idle for less.
C32_Claim ==
    /\ \A s \in SessionIds :
          SweptInactive(s) ~> (s \notin sessions /\ ~EngineLive(rec[s].client))
    /\ [][CleanupInactiveSessions =>
             \A s \in sessions : DestroyedBySweep(s) => rec[s].idle = "idle24"]_vars

\* C33 as stated: once a destroySession(s) has run to its end and s is absent
\* from the registry, no engine created for s is live.
C33_Claim ==
    \A s \in Minted :
        (s \notin sessions /\ \A t \in InFlight : t.kind = "destroy" => t.sid # s) =>
            \A e \in 1..Len(engines) : engines[e].sid = s => ~engines[e].live

\* C34 as stated: in every reachable state at most one engine that was
\* created for a session id and not yet destroyed exists.
C34_Claim ==
    \A s \in SessionIds : Cardinality(LiveEnginesOf(s)) <= 1

\* C35 as stated: for one session id session_destroyed is published at most
\* once, and at most one engine teardown is awaited at a time: a destroySession
\* that ends does not publish what the slice before it published for the same
\* id, and no two teardowns of one id are in flight.
C35_Claim ==
    [][\A t \in InFlight :
          /\ RmDone(t) =>
                ~(lastOp.op = "destroyReturn" /\ lastOp.sid = t.sid
                    /\ "session_destroyed" \in lastOp.emitted)
          /\ (t.kind = "destroy" /\ t.pc = "teardown") => CopiesIn(t, tasks) = 1]_vars

\* C36 as stated: where every registered session has authenticated, the
\* unfinished-session sweep destroys none of them before it has been idle for
\* more than 24 hours, whatever supervisor cycles, reconnection attempts and
\* sweeps came before.
C36_Claim ==
    [][CleanupUnfinishedSessions =>
          \A s \in sessions : DestroyedBySweep(s) => rec[s].idle = "idle24"]_vars

\* C37 as stated: in every reachable state the artifact file of every index
\* entry that is younger than the TTL exists.
C37_Claim ==
    \A k \in Keys :
        audioConversionCache[k] = "young" => outputFile[k] # "absent"

\* C38: in every reachable state every userSessions entry names a session
\* that is registered and whose record carries that user's id.
C38_UserIndexSound ==
    \A u \in Users :
        userSessions[u] # 0 =>
            /\ userSessions[u] \in sessions
            /\ rec[userSessions[u]].userId = u

\* C38 witness: a destroySession has returned after deleting the entries of
\* its session, and the user's entry names another session of that user that
\* is still registered.
C38_Witness ==
    /\ lastOp.op = "destroyReturn"
    /\ lastOp.sid \notin sessions
    /\ \E u \in Users :
          /\ userSessions[u] \in sessions
          /\ userSessions[u] # lastOp.sid
          /\ rec[userSessions[u]].userId = u

\* C39 as stated: when an engine of the primary routine emits disconnected
\* with any reason, the anti-automation line is logged exactly when the reason
\* is LOGOUT, the session is ready and less than 120000 ms have passed since
\* it became ready; and in every case the handler clears isReady and publishes
\* 'disconnected'.
C39_Claim ==
    [][\A e \in EngineIds, reason \in DisconnectReasons :
          (EngineEvent(e, "disconnected") /\ ~engines[e].fallback) =>
              /\ AntiBotSignal(e, reason) <=>
                    /\ reason = "LOGOUT"
                    /\ rec[engines[e].sid].isReady
                    /\ engines[e].clock \in {"below", "startOver"}
              /\ ~rec'[engines[e].sid].isReady
              /\ "disconnected" \in lastOp'.emitted]_vars

\* A step in which a reconnection attempt starts to wait for the teardown of
\* the stale engine.
TeardownBegun ==
    \E t \in BagToSet(tasks') :
        /\ t.kind = "reconnect" /\ t.pc = "rc_destroy"
        /\ CopiesIn(t, tasks') > CopiesIn(t, tasks)

\* C40 as stated: within one reconnection attempt 'reconnecting' is published
\* first, before the stale engine is destroyed: the slice that starts to wait
\* for the teardown has published it; the slice that resumes after the
\* teardown resets isReady, isAuthenticated and qrCode and only then enters
\* the start routine, without publishing 'reconnecting' a second time.
C40_Claim ==
    [][/\ TeardownBegun => "reconnecting" \in lastOp'.emitted
       /\ \A t \in InFlight, ok \in BOOLEAN :
             ReconnectTeardownDone(t, ok) =>
                 /\ ~rec'[t.sid].isReady /\ ~rec'[t.sid].isAuthenticated
                 /\ ~rec'[t.sid].qrCode
                 /\ "reconnecting" \notin lastOp'.emitted]_vars

====
